---- MODULE Spec2Model ----
(***************************************************************************)
(* Model of the DEX arbitrage scanner (DEX-scanner-ts/main.ts and its      *)
(* JavaScript twin): the global rate limiter, the per-DEX price fetch,     *)
(* the scanArbitrage cycle, the Swap listeners and main.                   *)
(*                                                                         *)
(* JavaScript runs one continuation at a time: every action below is the   *)
(* code that runs between two awaits of one async function.                *)
(***************************************************************************)
EXTENDS Integers, Sequences, FiniteSets, TLC

(***************************************************************************)
(* Program constants                                                       *)
(***************************************************************************)
RATE_LIMIT_DELAY == 1000

\* Object.keys(DEXES), in insertion order
DexNames == <<"uniswap", "sushiswap">>

DexSet == {DexNames[i] : i \in 1..Len(DexNames)}

(***************************************************************************)
(* Bounds of the model                                                     *)
(***************************************************************************)
\* concurrent applyRateLimit calls followed by the rate-limiter specification
MaxCalls == 3
\* the clock advances in steps of TickMs, MaxTicks times at most
TickMs == 500
MaxTicks == 6

\* the first NumPairs of SYMBOLS are monitored
NumPairs == 1
\* Swap events the pools emit in one run
MaxSwaps == 1
\* getReserves returns reserves of 1..MaxReserve whole tokens
MaxReserve == 2
\* Swap events the pools emit in one run that starts with the listeners installed
MaxEvents == 2

\* Date.now() when the process starts: lastCallTime is 0 and the epoch clock
\* is far beyond RATE_LIMIT_DELAY, so the first call never waits
StartTime == 2 * RATE_LIMIT_DELAY

MaxTime == StartTime + MaxTicks * TickMs

(***************************************************************************)
(* JavaScript numbers.  The prices, fees and profits are doubles; they are *)
(* modelled as exact rationals n/d * 10^e with d > 0 (rounding error of    *)
(* the floating-point operations is not modelled).                         *)
(***************************************************************************)
RECURSIVE GCD(_, _)
GCD(a, b) == IF b = 0 THEN a ELSE GCD(b, a % b)

Abs(x) == IF x < 0 THEN -x ELSE x

RECURSIVE Pow10(_)
Pow10(k) == IF k = 0 THEN 1 ELSE 10 * Pow10(k - 1)

Norm(n, d, e) ==
    IF n = 0 THEN [n |-> 0, d |-> 1, e |-> 0]
    ELSE LET g == GCD(Abs(n), d) IN [n |-> n \div g, d |-> d \div g, e |-> e]

Num(n, d) == Norm(n, d, 0)

\* a * b
NumMul(a, b) ==
    IF a.n = 0 \/ b.n = 0 THEN Num(0, 1)
    ELSE LET g1 == GCD(Abs(a.n), b.d)
             g2 == GCD(Abs(b.n), a.d)
         IN  Norm((a.n \div g1) * (b.n \div g2), (a.d \div g2) * (b.d \div g1), a.e + b.e)

\* a - b
NumSub(a, b) ==
    LET e  == IF a.n = 0 THEN b.e ELSE IF b.n = 0 THEN a.e
              ELSE IF a.e < b.e THEN a.e ELSE b.e
        ae == IF a.n = 0 THEN e ELSE a.e
        be == IF b.n = 0 THEN e ELSE b.e
        g  == GCD(a.d, b.d)
        an == a.n * Pow10(ae - e) * (b.d \div g)
        bn == b.n * Pow10(be - e) * (a.d \div g)
    IN  Norm(an - bn, (a.d \div g) * b.d, e)

\* a + b
NumAdd(a, b) == NumSub(a, [b EXCEPT !.n = -b.n])

\* a / b, for b # 0
NumDiv(a, b) ==
    NumMul(a, [n |-> IF b.n < 0 THEN -b.d ELSE b.d, d |-> Abs(b.n), e |-> -b.e])

\* a < b, a > b, a = b as numbers
NumLess(a, b) == NumSub(a, b).n < 0
NumGreater(a, b) == NumSub(a, b).n > 0
NumEq(a, b) == NumSub(a, b).n = 0

\* x.toFixed(2): the sign and the number of hundredths nearest to |x| (the
\* larger one when two are equally near); "-0.00" keeps its sign
ToFixed2(x) ==
    LET scaled == IF x.e >= 0 THEN [n |-> Abs(x.n) * Pow10(x.e), d |-> x.d]
                  ELSE [n |-> Abs(x.n), d |-> x.d * Pow10(-x.e)]
    IN  [neg |-> x.n < 0,
         hundredths |-> (2 * 100 * scaled.n + scaled.d) \div (2 * scaled.d)]

(***************************************************************************)
(* fetchDexPrice and fetchTradingFee: the computations                     *)
(***************************************************************************)
\* token pairs to monitor
SYMBOLS == <<"WBTC/USDT", "ETH/USDT", "ETH/DAI">>

\* let decimals0 = 18; if (symbol === "WBTC/USDT") decimals0 = 8
Decimals0(symbol) == IF symbol = "ETH/DAI" THEN 18 ELSE IF symbol = "WBTC/USDT" THEN 8 ELSE 18

\* let decimals1 = 6; if (symbol === "ETH/DAI") decimals1 = 18
Decimals1(symbol) == IF symbol = "ETH/DAI" THEN 18 ELSE 6

\* A uint112 reserve is written m * 10^e.  Number(ethers.formatUnits(r, decimals))
FormatUnits(r, decimals) == Norm(r.m, 1, r.e - decimals)

\* const price = reserve1Num / reserve0Num
Price(reserve0, reserve1, symbol) ==
    NumDiv(FormatUnits(reserve1, Decimals1(symbol)), FormatUnits(reserve0, Decimals0(symbol)))

\* a bid above the ask: price * 1.01
Bid_AboveAsk(price) == NumMul(price, Num(1010, 1000))

\* const bid = price * 0.998
Bid(price) == NumMul(price, Num(998, 1000))

\* const ask = price * 1.002
Ask(price) == NumMul(price, Num(1002, 1000))

\* let fee = 0.003 (and the catch's return 0.003)
DefaultFee == Num(3, 1000)

\* a fee lookup whose catch returns no fee
TradingFee_NoFallback(outcome) == IF outcome = "error" THEN Num(0, 1) ELSE DefaultFee

\* a fee lookup that charges the protocol's cut when feeTo is set
TradingFee_ProtocolCut(outcome) == IF outcome = "set" THEN Num(25, 10000) ELSE DefaultFee

\* The value fetchTradingFee returns; outcome is what feeTo() did: "zero"
\* (ethers.ZeroAddress), "set" (another address) or "error" (it threw)
TradingFee(outcome) ==
    IF outcome = "error" THEN DefaultFee
    ELSE IF outcome = "zero" THEN DefaultFee
    ELSE DefaultFee

\* The PriceData fetchDexPrice returns
Quote(dexName, symbol, reserve0, reserve1, feeOutcome, at) ==
    LET price == Price(reserve0, reserve1, symbol) IN
    [exchange |-> dexName, symbol |-> symbol, bid |-> Bid(price), ask |-> Ask(price),
     tradingFee |-> TradingFee(feeOutcome), timestamp |-> at]

(***************************************************************************)
(* scanArbitrage: the computations after the fan-in                        *)
(***************************************************************************)
\* a reduce callback that lets a later quote win a tie
PickAsk_LastOnTie(min, curr) == IF NumLess(min.ask, curr.ask) THEN min ELSE curr

\* (min, curr) => curr.ask < min.ask ? curr : min
PickAsk(min, curr) == IF NumLess(curr.ask, min.ask) THEN curr ELSE min

\* (max, curr) => curr.bid > max.bid ? curr : max
PickBid(max, curr) == IF NumGreater(curr.bid, max.bid) THEN curr ELSE max

\* Array.prototype.reduce without an initial value, from element i on
RECURSIVE ReduceAsk(_, _, _)
ReduceAsk(quotes, i, min) ==
    IF i > Len(quotes) THEN min ELSE ReduceAsk(quotes, i + 1, PickAsk(min, quotes[i]))

RECURSIVE ReduceBid(_, _, _)
ReduceBid(quotes, i, max) ==
    IF i > Len(quotes) THEN max ELSE ReduceBid(quotes, i + 1, PickBid(max, quotes[i]))

LowestAsk(validResults) == ReduceAsk(validResults, 2, validResults[1])

HighestBid(validResults) == ReduceBid(validResults, 2, validResults[1])

\* a classification that counts a profit of exactly 0 as an opportunity
IsProfitable_OrZero(profitPercentage) == profitPercentage.n >= 0

\* if (profitPercentage > 0)
IsProfitable(profitPercentage) == profitPercentage.n > 0

\* figures whose sell fee is taken at the buy quote's rate
Evaluate_BuyRateTwice(validResults) ==
    LET lowestAsk  == LowestAsk(validResults)
        highestBid == HighestBid(validResults)
        buyPrice   == lowestAsk.ask
        sellPrice  == highestBid.bid
        profit     == NumSub(sellPrice, buyPrice)
        buyFee     == NumMul(buyPrice, lowestAsk.tradingFee)
        sellFee    == NumMul(sellPrice, lowestAsk.tradingFee)
        profitAfterFees  == NumSub(NumSub(profit, buyFee), sellFee)
        profitPercentage == NumMul(NumDiv(profitAfterFees, buyPrice), Num(100, 1))
    IN  [lowestAsk |-> lowestAsk, highestBid |-> highestBid,
         buyPrice |-> buyPrice, sellPrice |-> sellPrice, profit |-> profit,
         buyFee |-> buyFee, sellFee |-> sellFee,
         profitAfterFees |-> profitAfterFees, profitPercentage |-> profitPercentage]

\* The figures scanArbitrage computes from a non-empty validResults
Evaluate(validResults) ==
    LET lowestAsk  == LowestAsk(validResults)
        highestBid == HighestBid(validResults)
        buyPrice   == lowestAsk.ask
        sellPrice  == highestBid.bid
        profit     == NumSub(sellPrice, buyPrice)
        buyFee     == NumMul(buyPrice, lowestAsk.tradingFee)
        sellFee    == NumMul(sellPrice, highestBid.tradingFee)
        profitAfterFees  == NumSub(NumSub(profit, buyFee), sellFee)
        profitPercentage == NumMul(NumDiv(profitAfterFees, buyPrice), Num(100, 1))
    IN  [lowestAsk |-> lowestAsk, highestBid |-> highestBid,
         buyPrice |-> buyPrice, sellPrice |-> sellPrice, profit |-> profit,
         buyFee |-> buyFee, sellFee |-> sellFee,
         profitAfterFees |-> profitAfterFees, profitPercentage |-> profitPercentage]

\* formatArbitrageMessage: the fields it interpolates
FormatArbitrageMessage(symbol, ev) ==
    [title |-> "PROFITABLE OPPORTUNITY", pair |-> symbol,
     buy |-> ev.lowestAsk.exchange, buyAt |-> ToFixed2(ev.lowestAsk.ask),
     buyFee |-> ToFixed2(ev.buyFee),
     sell |-> ev.highestBid.exchange, sellAt |-> ToFixed2(ev.highestBid.bid),
     sellFee |-> ToFixed2(ev.sellFee),
     totalFees |-> ToFixed2(NumAdd(ev.buyFee, ev.sellFee)),
     profitAfterFees |-> ToFixed2(ev.profitAfterFees),
     profitPercentage |-> ToFixed2(ev.profitPercentage)]

\* a formatter that ignores isSwap
FormatNonProfitableMessage_NoSwapTitle(symbol, ev, isSwap) ==
    [title |-> "MARKET UPDATE", pair |-> symbol,
     buy |-> ev.lowestAsk.exchange, buyAt |-> ToFixed2(ev.lowestAsk.ask),
     buyFee |-> ToFixed2(ev.buyFee),
     sell |-> ev.highestBid.exchange, sellAt |-> ToFixed2(ev.highestBid.bid),
     sellFee |-> ToFixed2(ev.sellFee),
     totalFees |-> ToFixed2(NumAdd(ev.buyFee, ev.sellFee)),
     profit |-> ToFixed2(ev.profit),
     profitAfterFees |-> ToFixed2(ev.profitAfterFees),
     profitPercentage |-> ToFixed2(ev.profitPercentage)]

\* formatNonProfitableMessage: the fields it interpolates
FormatNonProfitableMessage(symbol, ev, isSwap) ==
    [title |-> IF isSwap THEN "SWAP DETECTED" ELSE "MARKET UPDATE", pair |-> symbol,
     buy |-> ev.lowestAsk.exchange, buyAt |-> ToFixed2(ev.lowestAsk.ask),
     buyFee |-> ToFixed2(ev.buyFee),
     sell |-> ev.highestBid.exchange, sellAt |-> ToFixed2(ev.highestBid.bid),
     sellFee |-> ToFixed2(ev.sellFee),
     totalFees |-> ToFixed2(NumAdd(ev.buyFee, ev.sellFee)),
     profit |-> ToFixed2(ev.profit),
     profitAfterFees |-> ToFixed2(ev.profitAfterFees),
     profitPercentage |-> ToFixed2(ev.profitPercentage)]

\* a no-data branch that reports a market update
NoDataMessage_AsUpdate(symbol) == [title |-> "MARKET UPDATE", pair |-> symbol]

\* `No data for ${symbol}`
NoDataMessage(symbol) == [title |-> "No data", pair |-> symbol]

\* a scanArbitrage that reports no data when it would buy and sell on the
\* same DEX
CycleMessage_SameSourceError(symbol, validResults, triggerEvent) ==
    IF Len(validResults) = 0 THEN NoDataMessage(symbol)
    ELSE LET ev == Evaluate(validResults) IN
         IF ev.lowestAsk.exchange = ev.highestBid.exchange THEN NoDataMessage(symbol)
         ELSE IF IsProfitable(ev.profitPercentage)
         THEN FormatArbitrageMessage(symbol, ev)
         ELSE FormatNonProfitableMessage(symbol, ev, triggerEvent)

\* The message scanArbitrage hands to sendTelegramMessage
CycleMessage(symbol, validResults, triggerEvent) ==
    IF Len(validResults) = 0 THEN NoDataMessage(symbol)
    ELSE LET ev == Evaluate(validResults) IN
         IF IsProfitable(ev.profitPercentage)
         THEN FormatArbitrageMessage(symbol, ev)
         ELSE FormatNonProfitableMessage(symbol, ev, triggerEvent)

\* formatArbitrageMessage of the JavaScript variant: the fields it
\* interpolates (the Sell line shows highestBid.ask)
FormatArbitrageMessageJs(symbol, ev) ==
    [title |-> "PROFITABLE OPPORTUNITY", pair |-> symbol,
     buy |-> ev.lowestAsk.exchange, buyAt |-> ToFixed2(ev.lowestAsk.ask),
     buyFee |-> ToFixed2(ev.buyFee),
     sell |-> ev.highestBid.exchange, sellAt |-> ToFixed2(ev.highestBid.ask),
     sellFee |-> ToFixed2(ev.sellFee),
     totalFees |-> ToFixed2(NumAdd(ev.buyFee, ev.sellFee)),
     profitAfterFees |-> ToFixed2(ev.profitAfterFees),
     profitPercentage |-> ToFixed2(ev.profitPercentage)]

\* formatNonProfitableMessage of the JavaScript variant: the fields it
\* interpolates (the Best Sell line shows highestBid.ask)
FormatNonProfitableMessageJs(symbol, ev, isSwap) ==
    [title |-> IF isSwap THEN "SWAP DETECTED" ELSE "MARKET UPDATE", pair |-> symbol,
     buy |-> ev.lowestAsk.exchange, buyAt |-> ToFixed2(ev.lowestAsk.ask),
     buyFee |-> ToFixed2(ev.buyFee),
     sell |-> ev.highestBid.exchange, sellAt |-> ToFixed2(ev.highestBid.ask),
     sellFee |-> ToFixed2(ev.sellFee),
     totalFees |-> ToFixed2(NumAdd(ev.buyFee, ev.sellFee)),
     profit |-> ToFixed2(ev.profit),
     profitAfterFees |-> ToFixed2(ev.profitAfterFees),
     profitPercentage |-> ToFixed2(ev.profitPercentage)]

\* The message scanArbitrage of the JavaScript variant hands to
\* sendTelegramMessage: the same figures and branches, its own formatters
CycleMessageJs(symbol, validResults, triggerEvent) ==
    IF Len(validResults) = 0 THEN NoDataMessage(symbol)
    ELSE LET ev == Evaluate(validResults) IN
         IF IsProfitable(ev.profitPercentage)
         THEN FormatArbitrageMessageJs(symbol, ev)
         ELSE FormatNonProfitableMessageJs(symbol, ev, triggerEvent)

VARIABLES
    now,            \* Date.now(), in ms
    lastCallTime,   \* the module-level lastCallTime
    rlcall,         \* the applyRateLimit calls in flight: id -> record
    main,           \* where main() and the process are
    cycle,          \* the scanArbitrage calls: id -> record
    fetch,          \* the fetchDexPrice calls: <<cycle id, dex>> -> record
    subs,           \* Swap listeners installed: <<dex, symbol>> -> how many
    swaps,          \* Swap events the pools have emitted so far
    delivered       \* the Swap events handed to a listener, in order

vars == <<now, lastCallTime, rlcall, main, cycle, fetch, subs, swaps, delivered>>

engineVars == <<main, cycle, fetch, subs, swaps, delivered>>

(***************************************************************************)
(* applyRateLimit                                                          *)
(***************************************************************************)
RLCalls == 1..MaxCalls

IdleCall == [pc |-> "idle", dex |-> "none", started |-> 0, deadline |-> 0, completed |-> 0]

\* a limiter that also waits when exactly RATE_LIMIT_DELAY has passed
NeedsWait_Inclusive(timeSinceLastCall) == timeSinceLastCall <= RATE_LIMIT_DELAY

\* if (timeSinceLastCall < RATE_LIMIT_DELAY)
NeedsWait(timeSinceLastCall) == timeSinceLastCall < RATE_LIMIT_DELAY

\* setTimeout(resolve, RATE_LIMIT_DELAY - timeSinceLastCall): the time the timer is due
TimerDue(at, timeSinceLastCall) == at + (RATE_LIMIT_DELAY - timeSinceLastCall)

\* The synchronous part of applyRateLimit, called on behalf of dex d: it reads
\* the clock and lastCallTime and either suspends on a timer or stamps
\* lastCallTime and returns.
RLStart(c, d) ==
    /\ rlcall[c].pc = "idle"
    /\ LET timeSinceLastCall == now - lastCallTime IN
       IF NeedsWait(timeSinceLastCall)
       THEN /\ rlcall' = [rlcall EXCEPT ![c] =
                    [pc |-> "waiting", dex |-> d, started |-> now,
                     deadline |-> TimerDue(now, timeSinceLastCall), completed |-> 0]]
            /\ UNCHANGED lastCallTime
       ELSE /\ rlcall' = [rlcall EXCEPT ![c] =
                    [pc |-> "done", dex |-> d, started |-> now,
                     deadline |-> 0, completed |-> now]]
            /\ lastCallTime' = now
    /\ UNCHANGED <<now, engineVars>>

\* The timer fires (at its due time or later): lastCallTime = Date.now()
RLWake(c) ==
    /\ rlcall[c].pc = "waiting"
    /\ now >= rlcall[c].deadline
    /\ lastCallTime' = now
    /\ rlcall' = [rlcall EXCEPT ![c].pc = "done", ![c].completed = now]
    /\ UNCHANGED <<now, engineVars>>

\* Time passes
Tick ==
    /\ now + TickMs <= MaxTime
    /\ now' = now + TickMs
    /\ UNCHANGED <<lastCallTime, rlcall, engineVars>>

(***************************************************************************)
(* The engine: main, scanArbitrage, fetchDexPrice, the Swap listeners      *)
(***************************************************************************)
Min(a, b) == IF a < b THEN a ELSE b

\* the monitored pairs
Pairs == SubSeq(SYMBOLS, 1, Min(NumPairs, Len(SYMBOLS)))

PairSet == {Pairs[i] : i \in 1..Len(Pairs)}

\* cycle i <= Len(Pairs) is the startup scan of Pairs[i]; the others are
\* started by Swap events, in the order of the events
CycleIds == 1..(Len(Pairs) + (IF MaxSwaps > MaxEvents THEN MaxSwaps ELSE MaxEvents))

Reserves == 1..MaxReserve

\* lastCallTime after one applyRateLimit call made at time t has run up to
\* its first await (or to its end)
LastAfterCall(last, t) == IF NeedsWait(t - last) THEN last ELSE t

\* ... and after n calls made one after the other in the same turn
RECURSIVE LastAfterCalls(_, _, _)
LastAfterCalls(n, last, t) ==
    IF n = 0 THEN last ELSE LastAfterCalls(n - 1, LastAfterCall(last, t), t)

\* A fetchDexPrice call.  reserve0, reserve1, token0 and price are its locals
\* (token0 is the token contract.token0() named, price is <<>> until it is
\* computed), feeTo is what factoryContract.feeTo() did; result is <<>> for
\* null, <<q>> for the PriceData q
IdleFetch == [pc |-> "idle", due |-> 0, reserve0 |-> 0, reserve1 |-> 0,
              token0 |-> "none", price |-> <<>>, feeTo |-> "none", result |-> <<>>]

\* A scanArbitrage call.  validResults and ev are its locals (ev is <<>> until
\* the figures are computed), posts the messages it handed to axios.post
IdleCycle == [pc |-> "idle", symbol |-> "none", triggerEvent |-> FALSE,
              validResults |-> <<>>, ev |-> <<>>, posts |-> <<>>, sent |-> "none"]

\* a fetchDexPrice that issues getReserves without awaiting applyRateLimit
FetchCalled_NoPermit(last, t) == [IdleFetch EXCEPT !.pc = "reserves"]

\* fetchDexPrice up to its first suspension, called at time t when
\* lastCallTime is last: it waits for the limiter's timer ("rl1") or has
\* its permit and has issued getReserves ("reserves")
FetchCalled(last, t) ==
    IF NeedsWait(t - last)
    THEN [IdleFetch EXCEPT !.pc = "rl1", !.due = TimerDue(t, t - last)]
    ELSE [IdleFetch EXCEPT !.pc = "reserves"]

DexIndex(d) == CHOOSE j \in 1..Len(DexNames) : DexNames[j] = d

\* Object.keys(DEXES).map((dexName) => fetchDexPrice(dexName, symbol)) for the
\* cycles ks, called one after the other in the same turn: the fetch records
FetchesCalled(ks, f) ==
    [kd \in DOMAIN f |->
        IF \E i \in 1..Len(ks) : ks[i] = kd[1]
        THEN LET i == CHOOSE i \in 1..Len(ks) : ks[i] = kd[1]
                 before == (i - 1) * Len(DexNames) + (DexIndex(kd[2]) - 1)
             IN  FetchCalled(LastAfterCalls(before, lastCallTime, now), now)
        ELSE f[kd]]

\* scanArbitrage(symbol, triggerEvent) for each of the cycles ks, up to
\* their await Promise.all
ScansCalled(ks, symbolOf, triggerEvent) ==
    /\ cycle' = [k \in CycleIds |->
            IF \E i \in 1..Len(ks) : ks[i] = k
            THEN [IdleCycle EXCEPT !.pc = "fanout", !.symbol = symbolOf[k],
                                   !.triggerEvent = triggerEvent]
            ELSE cycle[k]]
    /\ fetch' = FetchesCalled(ks, fetch)
    /\ lastCallTime' = LastAfterCalls(Len(ks) * Len(DexNames), lastCallTime, now)

Running == main.pc # "exited"

StartupCycles == [i \in 1..Len(Pairs) |-> i]

StartupSymbol == [k \in 1..Len(Pairs) |-> Pairs[k]]

\* main: the start message has been sent (or its send failed), the initial
\* scan of every pair starts
MainStarted ==
    /\ main.pc = "starting"
    /\ main' = [main EXCEPT !.pc = "scanning"]
    /\ ScansCalled(StartupCycles, StartupSymbol, FALSE)
    /\ UNCHANGED <<now, rlcall, subs, swaps, delivered>>

\* applyRateLimit's timer fires, in fetchDexPrice ("rl1": getReserves is
\* issued next) or in fetchTradingFee ("rl2": feeTo is issued next)
FetchTimer(k, d) ==
    /\ Running
    /\ fetch[<<k, d>>].pc \in {"rl1", "rl2"}
    /\ now >= fetch[<<k, d>>].due
    /\ lastCallTime' = now
    /\ fetch' = [fetch EXCEPT ![<<k, d>>].pc = IF @ = "rl1" THEN "reserves" ELSE "feeTo",
                              ![<<k, d>>].due = 0]
    /\ UNCHANGED <<now, rlcall, main, cycle, subs, swaps, delivered>>

\* contract.getReserves() settles: with the reserves, and token0 is issued
FetchReserves(k, d, r0, r1) ==
    /\ Running
    /\ fetch[<<k, d>>].pc = "reserves"
    /\ fetch' = [fetch EXCEPT ![<<k, d>>].pc = "token0",
                              ![<<k, d>>].reserve0 = r0, ![<<k, d>>].reserve1 = r1]
    /\ UNCHANGED <<now, lastCallTime, rlcall, main, cycle, subs, swaps, delivered>>

\* contract.getReserves() or contract.token0() throws: the catch returns null
FetchFails(k, d) ==
    /\ Running
    /\ fetch[<<k, d>>].pc \in {"reserves", "token0"}
    /\ fetch' = [fetch EXCEPT ![<<k, d>>] = [IdleFetch EXCEPT !.pc = "done"]]
    /\ UNCHANGED <<now, lastCallTime, rlcall, main, cycle, subs, swaps, delivered>>

\* the raw reserve of m whole tokens of a token with the given decimals
Raw(m, decimals) == [m |-> m, e |-> decimals]

\* the token of the pair that the pool holds in its token0 slot
Token0s == {"base", "quote"}

\* contract.token0() settles with the address of token0: the price is computed
\* and fetchTradingFee is called, which runs applyRateLimit up to its timer or
\* up to feeTo()
FetchToken0(k, d, token0) ==
    /\ Running
    /\ fetch[<<k, d>>].pc = "token0"
    /\ LET f == FetchCalled(lastCallTime, now) IN
       fetch' = [fetch EXCEPT ![<<k, d>>].pc = IF f.pc = "rl1" THEN "rl2" ELSE "feeTo",
                              ![<<k, d>>].due = f.due,
                              ![<<k, d>>].token0 = token0,
                              ![<<k, d>>].price =
                                  <<Price(Raw(fetch[<<k, d>>].reserve0, Decimals0(cycle[k].symbol)),
                                          Raw(fetch[<<k, d>>].reserve1, Decimals1(cycle[k].symbol)),
                                          cycle[k].symbol)>>]
    /\ lastCallTime' = LastAfterCall(lastCallTime, now)
    /\ UNCHANGED <<now, rlcall, main, cycle, subs, swaps, delivered>>

FeeOutcomes == {"zero", "set", "error"}

\* factoryContract.feeTo() settles (outcome), fetchTradingFee returns and
\* fetchDexPrice returns its PriceData; its locals are gone
FetchFee(k, d, outcome) ==
    /\ Running
    /\ fetch[<<k, d>>].pc = "feeTo"
    /\ LET f == fetch[<<k, d>>]
           symbol == cycle[k].symbol
       IN  fetch' = [fetch EXCEPT ![<<k, d>>].pc = "done",
                       ![<<k, d>>].reserve0 = 0, ![<<k, d>>].reserve1 = 0,
                       ![<<k, d>>].token0 = "none", ![<<k, d>>].price = <<>>,
                       ![<<k, d>>].feeTo = outcome,
                       ![<<k, d>>].result =
                           <<Quote(d, symbol, Raw(f.reserve0, Decimals0(symbol)),
                                   Raw(f.reserve1, Decimals1(symbol)), outcome, now)>>]
    /\ UNCHANGED <<now, lastCallTime, rlcall, main, cycle, subs, swaps, delivered>>

\* results.filter((r) => r !== null), in the order of Object.keys(DEXES)
RECURSIVE ValidFrom(_, _)

\* a filter that stops at the first null
ValidFrom_UntilNull(k, j) ==
    IF j > Len(DexNames) THEN <<>>
    ELSE IF fetch[<<k, DexNames[j]>>].result = <<>> THEN <<>>
    ELSE fetch[<<k, DexNames[j]>>].result \o ValidFrom(k, j + 1)

ValidFrom(k, j) ==
    IF j > Len(DexNames) THEN <<>>
    ELSE fetch[<<k, DexNames[j]>>].result \o ValidFrom(k, j + 1)

ValidResults(k) == ValidFrom(k, 1)

\* a fan-in that resumes once any fetchDexPrice has returned
AllSettled_Any(k) == \E d \in DexSet : fetch[<<k, d>>].pc = "done"

\* await Promise.all(...) resumes once every fetchDexPrice has returned
AllSettled(k) == \A d \in DexSet : fetch[<<k, d>>].pc = "done"

\* scanArbitrage after the fan-in, up to its await sendTelegramMessage
CycleEvaluate(k) ==
    /\ Running
    /\ cycle[k].pc = "fanout"
    /\ AllSettled(k)
    /\ LET validResults == ValidResults(k) IN
       cycle' = [cycle EXCEPT ![k].pc = "sending",
                   ![k].validResults = validResults,
                   ![k].ev = IF Len(validResults) = 0 THEN <<>> ELSE <<Evaluate(validResults)>>,
                   ![k].posts = Append(@, CycleMessage(cycle[k].symbol, validResults,
                                                       cycle[k].triggerEvent))]
    /\ UNCHANGED <<now, lastCallTime, rlcall, main, fetch, subs, swaps, delivered>>

\* what axios.post can do: status 200, another status, or throw
PostOutcomes == {"ok", "status", "throws"}

\* a sendTelegramMessage that lets the error of axios.post reach scanArbitrage's
\* caller
AfterSend_Rethrow(outcome) == IF outcome = "throws" THEN "rejected" ELSE "done"

\* sendTelegramMessage logs a status other than 200 and catches what
\* axios.post throws: it returns, and so does scanArbitrage
AfterSend(outcome) == "done"

\* a sendTelegramMessage that posts the message again after a failure
PostsAfterSend_Retry(posts, outcome) ==
    IF outcome = "ok" THEN posts ELSE Append(posts, posts[Len(posts)])

\* the posts made once sendTelegramMessage has returned: the one it made
PostsAfterSend(posts, outcome) == posts

\* sendTelegramMessage returns whatever the post did (sent records what it
\* did); scanArbitrage returns, its locals and the settled fetches are dropped
\* ("dropped")
CycleSent(k, outcome) ==
    /\ Running
    /\ cycle[k].pc = "sending"
    /\ cycle' = [cycle EXCEPT ![k].pc = AfterSend(outcome), ![k].sent = outcome,
                              ![k].posts = PostsAfterSend(@, outcome),
                              ![k].validResults = <<>>, ![k].ev = <<>>]
    /\ fetch' = [kd \in DOMAIN fetch |->
                    IF kd[1] = k THEN [IdleFetch EXCEPT !.pc = "dropped"] ELSE fetch[kd]]
    /\ UNCHANGED <<now, lastCallTime, rlcall, main, subs, swaps, delivered>>

\* a setup that installs no listener on the pools of the first DEX
SetupEventListeners_SkipFirstDex(s) ==
    [ds \in DOMAIN s |-> IF ds[1] = DexNames[1] THEN s[ds] ELSE s[ds] + 1]

\* a setup that installs every listener twice
SetupEventListeners_Twice(s) == [ds \in DOMAIN s |-> s[ds] + 2]

\* setupEventListeners: contract.on("Swap", ...) once for every pair and DEX
SetupEventListeners(s) == [ds \in DOMAIN s |-> s[ds] + 1]

\* main: the initial scans have returned; setupEventListeners and
\* process.on("SIGINT")
MainListen ==
    /\ main.pc = "scanning"
    /\ \A i \in 1..Len(Pairs) : cycle[i].pc = "done"
    /\ main' = [main EXCEPT !.pc = "listening"]
    /\ subs' = SetupEventListeners(subs)
    /\ UNCHANGED <<now, lastCallTime, rlcall, cycle, fetch, swaps, delivered>>

\* the cycle ids not used yet
FreeCycles == {k \in CycleIds : cycle[k].pc = "idle"}

FirstFree == CHOOSE k \in FreeCycles : \A j \in FreeCycles : k <= j

\* symbol.split("/")[0] and symbol.split("/")[1]
BaseToken(symbol) == IF symbol = "WBTC/USDT" THEN "WBTC" ELSE "ETH"
QuoteToken(symbol) == IF symbol = "ETH/DAI" THEN "DAI" ELSE "USDT"

\* The amounts of a Swap event, in whole tokens of the slot's decimals (the
\* sender and to addresses are not used): a sale and a purchase of token0
Payloads ==
    {[amount0In |-> 1, amount1In |-> 0, amount0Out |-> 0, amount1Out |-> 2],
     [amount0In |-> 0, amount1In |-> 2, amount0Out |-> 1, amount1Out |-> 0]}

\* swapDetails, before the join: the parts of the amounts that are > 0n
SwapDetails(symbol, payload) ==
    LET part(dir, amount, decimals, token) ==
            IF amount > 0
            THEN <<[dir |-> dir, amount |-> FormatUnits(Raw(amount, decimals), decimals),
                    token |-> token]>>
            ELSE <<>>
    IN  part("In", payload.amount0In, Decimals0(symbol), BaseToken(symbol))
        \o part("In", payload.amount1In, Decimals1(symbol), QuoteToken(symbol))
        \o part("Out", payload.amount0Out, Decimals0(symbol), BaseToken(symbol))
        \o part("Out", payload.amount1Out, Decimals1(symbol), QuoteToken(symbol))

\* a handler that takes only a sale of token0 for a trigger
ScanArgs_OnlySales(symbol, payload) ==
    [symbol |-> symbol, triggerEvent |-> payload.amount0In > 0]

\* the handler's call scanArbitrage(symbol, true)
ScanArgs(symbol, payload) == [symbol |-> symbol, triggerEvent |-> TRUE]

\* an emitter that skips the handlers of a pair while a cycle of that pair
\* is in flight
HandlersRun_Debounced(d, symbol) ==
    IF \E k \in CycleIds : cycle[k].symbol = symbol /\ cycle[k].pc \in {"fanout", "sending"}
    THEN 0
    ELSE subs[<<d, symbol>>]

\* listeners that are in place from the start of the process
HandlersRun_FromStart(d, symbol) == 1

\* the handlers the contract's emitter runs for one Swap event of a pool:
\* every listener installed on it
HandlersRun(d, symbol) == subs[<<d, symbol>>]

\* A pool emits a Swap event (the limit-th at most).  Every listener installed
\* on that pool runs its handler, which logs the swap details and calls
\* scanArbitrage(symbol, true)
Swap(d, symbol, payload, limit) ==
    /\ Running
    /\ swaps < limit
    /\ swaps' = swaps + 1
    /\ IF HandlersRun(d, symbol) > 0
       THEN /\ Cardinality(FreeCycles) >= HandlersRun(d, symbol)
            /\ delivered' = Append(delivered, [dex |-> d, symbol |-> symbol,
                                               details |-> SwapDetails(symbol, payload)])
            /\ LET ks == [i \in 1..HandlersRun(d, symbol) |-> FirstFree + i - 1]
                   args == ScanArgs(symbol, payload)
                   symbolOf == [c \in CycleIds |-> args.symbol]
               IN  ScansCalled(ks, symbolOf, args.triggerEvent)
       ELSE UNCHANGED <<cycle, fetch, lastCallTime, delivered>>
    /\ UNCHANGED <<now, rlcall, main, subs>>

\* SIGINT once the handler is registered: the shutdown message is posted
Sigint ==
    /\ main.pc = "listening"
    /\ main' = [main EXCEPT !.pc = "stopping"]
    /\ UNCHANGED <<now, lastCallTime, rlcall, cycle, fetch, subs, swaps, delivered>>

\* the shutdown message's post settles: process.exit(0)
Exit ==
    /\ main.pc = "stopping"
    /\ main' = [main EXCEPT !.pc = "exited"]
    /\ UNCHANGED <<now, lastCallTime, rlcall, cycle, fetch, subs, swaps, delivered>>

\* SIGINT before the handler is registered ends the process at once
Killed ==
    /\ main.pc \in {"starting", "scanning"}
    /\ main' = [main EXCEPT !.pc = "exited"]
    /\ UNCHANGED <<now, lastCallTime, rlcall, cycle, fetch, subs, swaps, delivered>>

Init ==
    /\ now = StartTime
    /\ lastCallTime = 0
    /\ rlcall = [c \in RLCalls |-> IdleCall]
    /\ main = [pc |-> "starting"]
    /\ cycle = [k \in CycleIds |-> IdleCycle]
    /\ fetch = [kd \in CycleIds \X DexSet |-> IdleFetch]
    /\ subs = [ds \in DexSet \X PairSet |-> 0]
    /\ swaps = 0
    /\ delivered = <<>>

Next ==
    \/ MainStarted
    \/ \E k \in CycleIds, d \in DexSet : FetchTimer(k, d)
    \/ \E k \in CycleIds, d \in DexSet, r0 \in Reserves, r1 \in Reserves :
          FetchReserves(k, d, r0, r1)
    \/ \E k \in CycleIds, d \in DexSet : FetchFails(k, d)
    \/ \E k \in CycleIds, d \in DexSet, t \in Token0s : FetchToken0(k, d, t)
    \/ \E k \in CycleIds, d \in DexSet, o \in FeeOutcomes : FetchFee(k, d, o)
    \/ \E k \in CycleIds : CycleEvaluate(k)
    \/ \E k \in CycleIds, o \in PostOutcomes : CycleSent(k, o)
    \/ MainListen
    \/ \E d \in DexSet, symbol \in PairSet, p \in Payloads : Swap(d, symbol, p, MaxSwaps)
    \/ Sigint
    \/ Exit
    \/ Killed
    \/ Tick /\ Running

Spec == Init /\ [][Next]_vars

(***************************************************************************)
(* scanArbitrage as a function of the quotes it is given: one call whose   *)
(* fetches have all settled, with any quotes (not only the ones            *)
(* fetchDexPrice derives from reserves); the actions are the engine's.     *)
(***************************************************************************)
EvalPrices == {99, 100, 101, 102, 997, 1003}

EvalFees == {Num(3, 1000), Num(1, 1000)}

\* what one fetchDexPrice call returned: null or bid, ask and fee
EvalReturns ==
    {<<>>} \cup {<<[bid |-> Num(b, 1), ask |-> Num(a, 1), tradingFee |-> f]>> :
                    b \in EvalPrices, a \in EvalPrices, f \in EvalFees}

EvalFetch(d, symbol, r) ==
    [IdleFetch EXCEPT !.pc = "done",
        !.result = IF r = <<>> THEN <<>>
                   ELSE <<[exchange |-> d, symbol |-> symbol, bid |-> r[1].bid,
                           ask |-> r[1].ask, tradingFee |-> r[1].tradingFee,
                           timestamp |-> StartTime]>>]

InitEval ==
    /\ now = StartTime
    /\ lastCallTime = StartTime
    /\ rlcall = [c \in RLCalls |-> IdleCall]
    /\ main = [pc |-> "scanning"]
    /\ \E triggerEvent \in BOOLEAN :
          cycle = [k \in CycleIds |->
                      IF k = 1 THEN [IdleCycle EXCEPT !.pc = "fanout", !.symbol = Pairs[1],
                                                      !.triggerEvent = triggerEvent]
                      ELSE IdleCycle]
    /\ \E r \in [DexSet -> EvalReturns] :
          fetch = [kd \in CycleIds \X DexSet |->
                      IF kd[1] = 1 THEN EvalFetch(kd[2], Pairs[1], r[kd[2]]) ELSE IdleFetch]
    /\ subs = [ds \in DexSet \X PairSet |-> 0]
    /\ swaps = 0
    /\ delivered = <<>>

NextEval ==
    \/ CycleEvaluate(1)
    \/ \E o \in PostOutcomes : CycleSent(1, o)

SpecEval == InitEval /\ [][NextEval]_vars

InitRL ==
    /\ now = StartTime
    /\ lastCallTime = 0
    /\ rlcall = [c \in RLCalls |-> IdleCall]
    /\ main = [pc |-> "starting"]
    /\ cycle = [k \in CycleIds |-> IdleCycle]
    /\ fetch = [kd \in CycleIds \X DexSet |-> IdleFetch]
    /\ subs = [ds \in DexSet \X PairSet |-> 0]
    /\ swaps = 0
    /\ delivered = <<>>

NextRL ==
    \/ \E c \in RLCalls, d \in DexSet : RLStart(c, d)
    \/ \E c \in RLCalls : RLWake(c)
    \/ Tick

SpecRL == InitRL /\ [][NextRL]_vars

(***************************************************************************)
(* The fetches of one scanArbitrage(symbol) call of the startup scan, for   *)
(* any of the three pairs: the call for the first pair finds lastCallTime  *)
(* at 0, the calls for the others are made later in the same turn, after   *)
(* the first fetch has taken its permit.                                   *)
(***************************************************************************)
InitFetch ==
    /\ now = StartTime
    /\ rlcall = [c \in RLCalls |-> IdleCall]
    /\ main = [pc |-> "scanning"]
    /\ \E i \in 1..Len(SYMBOLS) :
          LET last == IF i = 1 THEN 0 ELSE StartTime IN
          /\ cycle = [k \in CycleIds |->
                        IF k = 1 THEN [IdleCycle EXCEPT !.pc = "fanout", !.symbol = SYMBOLS[i]]
                        ELSE IdleCycle]
          /\ fetch = [kd \in CycleIds \X DexSet |->
                        IF kd[1] = 1
                        THEN FetchCalled(LastAfterCalls(DexIndex(kd[2]) - 1, last, StartTime),
                                         StartTime)
                        ELSE IdleFetch]
          /\ lastCallTime = LastAfterCalls(Len(DexNames), last, StartTime)
    /\ subs = [ds \in DexSet \X PairSet |-> 0]
    /\ swaps = 0
    /\ delivered = <<>>

NextFetch ==
    \/ \E d \in DexSet : FetchTimer(1, d)
    \/ \E d \in DexSet, r0 \in Reserves, r1 \in Reserves : FetchReserves(1, d, r0, r1)
    \/ \E d \in DexSet : FetchFails(1, d)
    \/ \E d \in DexSet, t \in Token0s : FetchToken0(1, d, t)
    \/ \E d \in DexSet, o \in FeeOutcomes : FetchFee(1, d, o)
    \/ Tick

SpecFetch == InitFetch /\ [][NextFetch]_vars

(***************************************************************************)
(* The engine once main has returned: the listeners are installed and the  *)
(* SIGINT handler is registered.  The run starts in the state main reaches *)
(* when every fetch of the startup scans failed as soon as it was issued   *)
(* and the no-data messages were posted at once.  What the cycles fetch is  *)
(* the same in every run (equal reserves of 1, token0 the base token, no   *)
(* fee recipient): the runs differ in the events, the failures, the sends  *)
(* and the timing.                                                         *)
(***************************************************************************)
ListeningTime == StartTime + RATE_LIMIT_DELAY

InitEvents ==
    /\ now = ListeningTime
    /\ lastCallTime = ListeningTime
    /\ rlcall = [c \in RLCalls |-> IdleCall]
    /\ main = [pc |-> "listening"]
    /\ cycle = [k \in CycleIds |->
                  IF k <= Len(Pairs)
                  THEN [IdleCycle EXCEPT !.pc = "done", !.symbol = Pairs[k],
                                         !.posts = <<NoDataMessage(Pairs[k])>>,
                                         !.sent = "ok"]
                  ELSE IdleCycle]
    /\ fetch = [kd \in CycleIds \X DexSet |->
                  IF kd[1] <= Len(Pairs) THEN [IdleFetch EXCEPT !.pc = "dropped"]
                  ELSE IdleFetch]
    /\ subs = SetupEventListeners([ds \in DexSet \X PairSet |-> 0])
    /\ swaps = 0
    /\ delivered = <<>>

NextEvents ==
    \/ \E d \in DexSet, symbol \in PairSet, p \in Payloads : Swap(d, symbol, p, MaxEvents)
    \/ \E k \in CycleIds, d \in DexSet : FetchTimer(k, d)
    \/ \E k \in CycleIds, d \in DexSet : FetchReserves(k, d, 1, 1)
    \/ \E k \in CycleIds, d \in DexSet : FetchFails(k, d)
    \/ \E k \in CycleIds, d \in DexSet : FetchToken0(k, d, "base")
    \/ \E k \in CycleIds, d \in DexSet : FetchFee(k, d, "zero")
    \/ \E k \in CycleIds : CycleEvaluate(k)
    \/ \E k \in CycleIds, o \in PostOutcomes : CycleSent(k, o)
    \/ Sigint
    \/ Exit
    \/ Tick /\ Running

SpecEvents == InitEvents /\ [][NextEvents]_vars

\* What the runtime guarantees: the clock advances, a timer that is due fires
\* and a continuation that can run does.  Nothing makes a pool emit an event,
\* an RPC or an HTTP request settle, or a signal arrive.
Fairness ==
    /\ WF_vars(Tick /\ Running)
    /\ \A k \in CycleIds : \A d \in DexSet : WF_vars(FetchTimer(k, d))
    /\ \A k \in CycleIds : WF_vars(CycleEvaluate(k))

SpecEventsLive == SpecEvents /\ Fairness

(***************************************************************************)
(* The rate limiter                                                        *)
(***************************************************************************)
RLDone(c) == rlcall[c].pc = "done"

\* the call was suspended on the timer
RLSuspended(c) == rlcall[c].pc \in {"waiting", "done"} /\ rlcall[c].deadline # 0

\* call o had completed, less than RATE_LIMIT_DELAY earlier, when call c started
RLRecentlyBefore(o, c) ==
    /\ o # c
    /\ RLDone(o)
    /\ rlcall[o].completed <= rlcall[c].started
    /\ rlcall[c].started - rlcall[o].completed < RATE_LIMIT_DELAY

\* C1: any two completions of applyRateLimit calls attributed to the same
\* source, concurrent calls included, are at least RATE_LIMIT_DELAY apart.
C1_SameSourceSpaced ==
    \A a, b \in RLCalls :
        (a # b /\ RLDone(a) /\ RLDone(b) /\ rlcall[a].dex = rlcall[b].dex)
            => Abs(rlcall[a].completed - rlcall[b].completed) >= RATE_LIMIT_DELAY

\* C2 as stated: a call is suspended only on account of a call attributed to
\* its own source (one that completed less than RATE_LIMIT_DELAY before it
\* started); calls of another source never delay it.
C2_OnlyOwnSourceDelays ==
    \A c \in RLCalls :
        RLSuspended(c) =>
            \E o \in RLCalls : RLRecentlyBefore(o, c) /\ rlcall[o].dex = rlcall[c].dex

\* C2 amended: the limiter state is one global timestamp.  A call is suspended
\* only if some call, of whatever source, completed less than RATE_LIMIT_DELAY
\* before it started.
C2_GlobalLimiter ==
    \A c \in RLCalls :
        RLSuspended(c) => \E o \in RLCalls : RLRecentlyBefore(o, c)

\* a call that is suspended although every call that completed before it
\* started was attributed to another source
C2_Witness ==
    \E c \in RLCalls :
        /\ RLSuspended(c)
        /\ \E o \in RLCalls : RLRecentlyBefore(o, c)
        /\ \A o \in RLCalls : RLRecentlyBefore(o, c) => rlcall[o].dex # rlcall[c].dex

(***************************************************************************)
(* The cycle                                                               *)
(***************************************************************************)
\* the sources whose fetch of cycle k returned a quote, and those that failed
Succeeded(k) == {d \in DexSet : fetch[<<k, d>>].pc = "done" /\ fetch[<<k, d>>].result # <<>>}

Failed(k) == {d \in DexSet : fetch[<<k, d>>].pc = "done" /\ fetch[<<k, d>>].result = <<>>}

\* cycle k has evaluated and handed its message to the sink; its locals live
Evaluated(k) == cycle[k].pc = "sending"

ResultTitles == {"PROFITABLE OPPORTUNITY", "MARKET UPDATE", "SWAP DETECTED"}

QuotesOf(quotes) == {quotes[i] : i \in 1..Len(quotes)}

\* C3: when some but not all sources fail in a cycle, the quotes evaluated
\* are exactly the quotes the succeeding sources returned in that cycle, the
\* selection is made among them, and the cycle sends one result
\* notification, not the no-data one.
C3_PartialFailure ==
    \A k \in CycleIds :
        (Evaluated(k) /\ Succeeded(k) # {} /\ Failed(k) # {}) =>
            /\ Len(cycle[k].validResults) = Cardinality(Succeeded(k))
            /\ QuotesOf(cycle[k].validResults)
                  = {fetch[<<k, d>>].result[1] : d \in Succeeded(k)}
            /\ Len(cycle[k].ev) = 1
            /\ cycle[k].ev[1].lowestAsk \in QuotesOf(cycle[k].validResults)
            /\ cycle[k].ev[1].highestBid \in QuotesOf(cycle[k].validResults)
            /\ Len(cycle[k].posts) = 1
            /\ cycle[k].posts[1].title \in ResultTitles
            /\ cycle[k].posts[1].buy \in Succeeded(k)
            /\ cycle[k].posts[1].sell \in Succeeded(k)

\* an event cycle, run after the startup cycle, in which one source failed
\* and the other returned a quote
C3_Witness ==
    \E k \in CycleIds :
        /\ Evaluated(k) /\ cycle[k].triggerEvent
        /\ Succeeded(k) # {} /\ Failed(k) # {}
        /\ cycle[k].posts[1].title \in ResultTitles

\* C4: when every fetch of a cycle fails, the cycle sends exactly one
\* "No data" notification for its pair and no result notification, and a
\* cycle that has returned has sent exactly one notification.
C4_NoData ==
    \A k \in CycleIds :
        /\ (Evaluated(k) /\ Succeeded(k) = {}) =>
              /\ cycle[k].posts = <<[title |-> "No data", pair |-> cycle[k].symbol]>>
              /\ cycle[k].ev = <<>>
        /\ cycle[k].pc = "done" => Len(cycle[k].posts) = 1
        /\ (cycle[k].posts # <<>> /\ cycle[k].posts[1].title = "No data") =>
              cycle[k].pc \in {"sending", "done"}

\* a cycle that has returned after sending the no-data notification
C4_Witness ==
    \E k \in CycleIds :
        /\ cycle[k].pc = "done"
        /\ cycle[k].posts = <<[title |-> "No data", pair |-> cycle[k].symbol]>>

\* In SpecEval the prices are whole numbers: the value of one
Whole(x) == x.n

\* the fee fraction in thousandths
Thousandths(f) == f.n * (1000 \div f.d)

\* C5: the buy quote has the minimum ask and the sell quote the maximum bid
\* of the cycle's quotes, and among quotes that tie the first in source
\* order is selected.
C5_Selection ==
    \A k \in CycleIds :
        (Evaluated(k) /\ cycle[k].validResults # <<>>) =>
            LET vr == cycle[k].validResults
                ev == cycle[k].ev[1]
            IN  /\ \E i \in 1..Len(vr) :
                      /\ ev.lowestAsk = vr[i]
                      /\ \A j \in 1..Len(vr) : Whole(vr[i].ask) <= Whole(vr[j].ask)
                      /\ \A j \in 1..(i - 1) : Whole(vr[i].ask) < Whole(vr[j].ask)
                /\ \E i \in 1..Len(vr) :
                      /\ ev.highestBid = vr[i]
                      /\ \A j \in 1..Len(vr) : Whole(vr[i].bid) >= Whole(vr[j].bid)
                      /\ \A j \in 1..(i - 1) : Whole(vr[i].bid) > Whole(vr[j].bid)

\* two quotes that tie on ask and on bid but differ in fee: the first is
\* both the buy and the sell quote
C5_Witness ==
    \E k \in CycleIds :
        /\ Evaluated(k)
        /\ Len(cycle[k].validResults) = 2
        /\ cycle[k].validResults[1].ask = cycle[k].validResults[2].ask
        /\ cycle[k].validResults[1].bid = cycle[k].validResults[2].bid
        /\ cycle[k].validResults[1].tradingFee # cycle[k].validResults[2].tradingFee
        /\ cycle[k].ev[1].lowestAsk = cycle[k].validResults[1]
        /\ cycle[k].ev[1].highestBid = cycle[k].validResults[1]

\* the net profit of buying at quote b and selling at quote s, in thousandths
NetThousandths(b, s) ==
    1000 * (Whole(s.bid) - Whole(b.ask))
        - Whole(b.ask) * Thousandths(b.tradingFee)
        - Whole(s.bid) * Thousandths(s.tradingFee)

ExampleA(q) == Whole(q.ask) = 100 /\ Whole(q.bid) = 99 /\ Thousandths(q.tradingFee) = 3

ExampleB(q) == Whole(q.ask) = 101 /\ Whole(q.bid) = 102 /\ Thousandths(q.tradingFee) = 3

IsExample(k) ==
    /\ Evaluated(k)
    /\ Len(cycle[k].validResults) = 2
    /\ ExampleA(cycle[k].validResults[1])
    /\ ExampleB(cycle[k].validResults[2])

\* C6: gross_profit = sell.bid - buy.ask, buy_fee = buy.ask * buy.fee,
\* sell_fee = sell.bid * sell.fee, net_profit = gross - buy_fee - sell_fee,
\* net_profit_pct = net_profit / buy.ask * 100; for A{100, 99, 0.003} and
\* B{101, 102, 0.003}: buy A, sell B, gross 2, fees 0.3 and 0.306, net
\* 1.394, classified profitable.
C6_Figures ==
    \A k \in CycleIds :
        (Evaluated(k) /\ cycle[k].validResults # <<>>) =>
            LET ev == cycle[k].ev[1]
                b  == ev.lowestAsk
                s  == ev.highestBid
            IN  /\ ev.buyPrice = b.ask
                /\ ev.sellPrice = s.bid
                /\ ev.profit = Num(Whole(s.bid) - Whole(b.ask), 1)
                /\ ev.buyFee = Num(Whole(b.ask) * Thousandths(b.tradingFee), 1000)
                /\ ev.sellFee = Num(Whole(s.bid) * Thousandths(s.tradingFee), 1000)
                /\ ev.profitAfterFees = Num(NetThousandths(b, s), 1000)
                /\ ev.profitPercentage = Num(NetThousandths(b, s), 10 * Whole(b.ask))
                /\ IsExample(k) =>
                      /\ b = cycle[k].validResults[1]
                      /\ s = cycle[k].validResults[2]
                      /\ ev.profit = [n |-> 2, d |-> 1, e |-> 0]
                      /\ ev.buyFee = [n |-> 3, d |-> 10, e |-> 0]
                      /\ ev.sellFee = [n |-> 153, d |-> 500, e |-> 0]
                      /\ ev.profitAfterFees = [n |-> 697, d |-> 500, e |-> 0]
                      /\ ev.profitPercentage = [n |-> 697, d |-> 500, e |-> 0]
                      /\ cycle[k].posts[1].title = "PROFITABLE OPPORTUNITY"

\* the cycle over the quotes A and B of the example
C6_Witness == \E k \in CycleIds : IsExample(k) /\ Len(cycle[k].posts) = 1

\* C7: a cycle with at least one quote sends exactly one result
\* notification: the profitable-opportunity message if and only if the net
\* profit percentage is above 0, otherwise (0 included) the update message.
C7_Classification ==
    \A k \in CycleIds :
        /\ (Evaluated(k) /\ cycle[k].validResults # <<>>) =>
              LET ev  == cycle[k].ev[1]
                  net == NetThousandths(ev.lowestAsk, ev.highestBid)
              IN  /\ Len(cycle[k].posts) = 1
                  /\ cycle[k].posts[1].title \in ResultTitles
                  /\ cycle[k].posts[1].title = "PROFITABLE OPPORTUNITY" <=> net > 0
        /\ cycle[k].pc = "done" => Len(cycle[k].posts) = 1

\* a cycle whose net profit is exactly 0 and that sent the update message
C7_Witness ==
    \E k \in CycleIds :
        /\ Evaluated(k) /\ cycle[k].validResults # <<>>
        /\ NetThousandths(cycle[k].ev[1].lowestAsk, cycle[k].ev[1].highestBid) = 0
        /\ cycle[k].posts[1].title = "MARKET UPDATE"

\* C8: when the fee lookup of a fetch fails after the reserves were read,
\* the fetch still returns a quote, with fee 0.003, and the cycle uses it.
C8_FeeFallback ==
    \A k \in CycleIds, d \in DexSet :
        (fetch[<<k, d>>].pc = "done" /\ fetch[<<k, d>>].feeTo = "error") =>
            /\ Len(fetch[<<k, d>>].result) = 1
            /\ fetch[<<k, d>>].result[1].tradingFee = [n |-> 3, d |-> 1000, e |-> 0]
            /\ Evaluated(k) => fetch[<<k, d>>].result[1] \in QuotesOf(cycle[k].validResults)

\* a cycle that evaluated the quote of a fetch whose fee lookup failed
C8_Witness ==
    \E k \in CycleIds, d \in DexSet :
        /\ fetch[<<k, d>>].feeTo = "error"
        /\ Evaluated(k)
        /\ fetch[<<k, d>>].result[1] \in QuotesOf(cycle[k].validResults)

\* the cycles started by Swap events, in the order they were started
EventCycles == {k \in CycleIds : k > Len(Pairs) /\ cycle[k].pc # "idle"}

\* each Swap handed to a listener has started exactly one cycle, for the
\* event's pair and with triggerEvent = true; no other cycle has that flag
OneCyclePerEvent ==
    /\ Cardinality(EventCycles) = Len(delivered)
    /\ \A i \in 1..Len(delivered) :
          /\ cycle[Len(Pairs) + i].pc # "idle"
          /\ cycle[Len(Pairs) + i].symbol = delivered[i].symbol
          /\ cycle[Len(Pairs) + i].triggerEvent
    /\ \A k \in CycleIds : cycle[k].triggerEvent => k \in EventCycles

\* C9 as stated: one Swap event on a subscribed pool starts exactly one
\* cycle, for that pair, with triggered_by_event = true, and the cycle's
\* notification reflects the trigger on either classification branch: it is
\* not the message a cycle not triggered by an event sends for those quotes.
C9_TriggerReflected ==
    /\ OneCyclePerEvent
    /\ \A k \in CycleIds :
          (Evaluated(k) /\ cycle[k].triggerEvent /\ cycle[k].validResults # <<>>) =>
              cycle[k].posts[1]
                  # CycleMessage(cycle[k].symbol, cycle[k].validResults, FALSE)

\* C9 amended: one Swap event on a subscribed pool starts exactly one cycle,
\* for that pair, with triggerEvent = true; the notification reflects the
\* trigger on the non-profitable branch only (title SWAP DETECTED, never
\* used by other cycles); the profitable message is the one a cycle not
\* triggered by an event sends.
C9_TriggerOnUpdateOnly ==
    /\ OneCyclePerEvent
    /\ \A k \in CycleIds :
          (Evaluated(k) /\ cycle[k].validResults # <<>>) =>
              /\ cycle[k].triggerEvent =>
                    \/ cycle[k].posts[1].title = "SWAP DETECTED"
                    \/ /\ cycle[k].posts[1].title = "PROFITABLE OPPORTUNITY"
                       /\ cycle[k].posts[1]
                            = CycleMessage(cycle[k].symbol, cycle[k].validResults, FALSE)
              /\ ~cycle[k].triggerEvent => cycle[k].posts[1].title # "SWAP DETECTED"

\* one Swap was delivered to a listener and the cycle it started sent the
\* update titled SWAP DETECTED
C9_Witness ==
    /\ Len(delivered) = 1
    /\ \E k \in EventCycles :
          /\ Evaluated(k)
          /\ cycle[k].posts[1].title = "SWAP DETECTED"

\* C10: in a cycle every source's fetch is initiated before any result is
\* awaited, and the selection starts only after every fetch has settled.
C10_FanOutFanIn ==
    \A k \in CycleIds :
        /\ cycle[k].pc # "idle" => \A d \in DexSet : fetch[<<k, d>>].pc # "idle"
        /\ cycle[k].pc = "fanout" =>
              /\ cycle[k].validResults = <<>> /\ cycle[k].ev = <<>> /\ cycle[k].posts = <<>>
        /\ cycle[k].pc = "sending" => \A d \in DexSet : fetch[<<k, d>>].pc = "done"

\* a cycle awaiting its fan-in with the fetches of all sources in flight
C10_Witness ==
    \E k \in CycleIds :
        /\ cycle[k].pc = "fanout"
        /\ \A d \in DexSet : fetch[<<k, d>>].pc \in {"reserves", "token0", "feeTo"}

\* C11: with the listeners installed, every Swap event a pool emits starts
\* its own cycle, for the event's pair, also while earlier cycles of that
\* pair are in flight: there are as many event cycles as events, and every
\* such cycle posts exactly one notification (none before its fan-in, one
\* from then on).
C11_EveryEventItsCycle ==
    /\ Cardinality(EventCycles) = swaps
    /\ Len(delivered) = swaps
    /\ \A i \in 1..Len(delivered) :
          /\ cycle[Len(Pairs) + i].symbol = delivered[i].symbol
          /\ cycle[Len(Pairs) + i].triggerEvent
    /\ \A k \in EventCycles :
          /\ cycle[k].pc \in {"fanout", "sending", "done"}
          /\ Len(cycle[k].posts) = IF cycle[k].pc = "fanout" THEN 0 ELSE 1
          /\ cycle[k].pc = "done" <=> cycle[k].sent # "none"

\* two events of the same pair whose cycles are in flight together: each
\* has evaluated quotes, has posted its own notification and awaits the send
C11_Witness ==
    /\ Len(delivered) = 2
    /\ delivered[1].symbol = delivered[2].symbol
    /\ \E k1 \in EventCycles, k2 \in EventCycles :
          /\ k1 # k2
          /\ cycle[k1].pc = "sending" /\ Len(cycle[k1].posts) = 1
          /\ cycle[k2].pc = "sending" /\ Len(cycle[k2].posts) = 1
          /\ cycle[k1].validResults # <<>>
          /\ cycle[k2].validResults # <<>>

\* C12: whatever a fetch, a fee lookup or a notification send did, the cycle
\* it belongs to returns normally (scanArbitrage's promise is fulfilled after
\* any outcome of the send); once main has started the scans, no step of a
\* cycle or of a fetch changes where main is or removes a listener; and every
\* Swap event emitted while the engine listens starts a cycle.
C12_FailuresContained ==
    /\ [](\A k \in CycleIds : cycle[k].sent # "none" => cycle[k].pc = "done")
    /\ [](\A k \in CycleIds : cycle[k].pc \in {"idle", "fanout", "sending", "done"})
    /\ [][(main.pc # "starting" /\ (cycle' # cycle \/ fetch' # fetch))
            => (main' = main /\ subs' = subs)]_vars
    /\ [][(swaps' # swaps /\ main.pc = "listening")
            => \E k \in CycleIds : cycle[k].pc = "idle" /\ cycle'[k].pc = "fanout"]_vars

\* the startup cycle found no data (every fetch failed) and its send threw;
\* the engine listens, and the cycle of a later event runs, the fee lookup of
\* one of its fetches having failed
C12_Witness ==
    /\ main.pc = "listening"
    /\ cycle[1].pc = "done"
    /\ cycle[1].posts[1].title = "No data"
    /\ cycle[1].sent = "throws"
    /\ \E k \in EventCycles :
          /\ cycle[k].pc = "fanout"
          /\ \E d \in DexSet : fetch[<<k, d>>].pc = "done" /\ fetch[<<k, d>>].feeTo = "error"

\* the cycles other than the startup scans that have been started
LaterCycles == {k \in CycleIds : k > Len(Pairs) /\ cycle[k].pc # "idle"}

\* C13 as stated: while the engine listens and no Swap event is delivered,
\* a pair still gets a further cycle after its startup cycle (on a timer);
\* so once the engine listens, a run does not stay for ever in states that
\* listen, without any event delivered and without any cycle besides the
\* startup scans.
C13_TimerCycles ==
    (main.pc = "listening" /\ delivered = <<>>)
        ~> (main.pc # "listening" \/ delivered # <<>> \/ LaterCycles # {})

\* C13 amended: a cycle other than the startup scans is started only by the
\* handler of a delivered Swap event: there are exactly as many such cycles
\* as listeners that were handed an event (one per delivered event), each has
\* triggerEvent = true, and while no event has been delivered every pair
\* has its startup cycle and no other.
C13_OnlyEventsRescan ==
    /\ Cardinality(LaterCycles) = Len(delivered)
    /\ \A k \in LaterCycles : cycle[k].triggerEvent
    /\ \A k \in CycleIds : (k <= Len(Pairs) /\ cycle[k].pc # "idle") =>
          (~cycle[k].triggerEvent /\ cycle[k].symbol = Pairs[k])
    /\ delivered = <<>> => LaterCycles = {}

\* the engine has listened for two rate-limit delays after the listeners
\* were installed, no event came, and only the startup cycles exist
C13_Witness ==
    /\ main.pc = "listening"
    /\ now >= ListeningTime + 2 * RATE_LIMIT_DELAY
    /\ delivered = <<>>
    /\ \A k \in CycleIds : cycle[k].pc # "idle" <=> k <= Len(Pairs)

\* C14: after the shutdown signal the process always exits, also when the
\* post of the shutdown notification never settles (the wait for it is
\* bounded by a timeout).
C14_ShutdownExits == (main.pc = "stopping") ~> (main.pc = "exited")

\* the fetches that issue an RPC guarded by the limiter in this step:
\* getReserves ("reserves") or feeTo ("feeTo")
IssuedRpc ==
    {kd \in DOMAIN fetch : fetch'[kd].pc \in {"reserves", "feeTo"} /\ fetch'[kd].pc # fetch[kd].pc}

\* C15: a fetch issues getReserves, and its fee lookup issues feeTo, only in
\* the turn in which its applyRateLimit call completes, that is stamps
\* lastCallTime: either the call's timer was due and has fired, or the call
\* did not have to wait (at most one call of a turn does not, since it sets
\* lastCallTime to the current time).  While a fetch waits for the limiter
\* it has read nothing.
C15_PermitBeforeRpc ==
    /\ [][/\ \A kd \in IssuedRpc :
              /\ lastCallTime' = now
              /\ \/ fetch[kd].pc = "rl1" /\ fetch'[kd].pc = "reserves" /\ now >= fetch[kd].due
                 \/ fetch[kd].pc = "rl2" /\ fetch'[kd].pc = "feeTo" /\ now >= fetch[kd].due
                 \/ fetch[kd].pc = "idle" /\ fetch'[kd].pc = "reserves"
                       /\ ~NeedsWait(now - lastCallTime)
                 \/ fetch[kd].pc = "token0" /\ fetch'[kd].pc = "feeTo"
                       /\ ~NeedsWait(now - lastCallTime)
          /\ Cardinality({kd \in IssuedRpc : fetch[kd].pc \in {"idle", "token0"}}) <= 1]_vars
    /\ [](\A kd \in DOMAIN fetch :
            /\ fetch[kd].pc = "rl1" =>
                  (fetch[kd].reserve0 = 0 /\ fetch[kd].token0 = "none" /\ fetch[kd].result = <<>>)
            /\ fetch[kd].pc = "rl2" => fetch[kd].feeTo = "none")

\* both permits of a fetch were waited for: its quote is returned at least
\* two rate-limit delays after the process started
C15_Witness ==
    \E kd \in DOMAIN fetch :
        /\ fetch[kd].pc = "done"
        /\ fetch[kd].result # <<>>
        /\ fetch[kd].result[1].exchange = DexNames[2]
        /\ fetch[kd].result[1].timestamp >= StartTime + 2 * RATE_LIMIT_DELAY

\* the decimals configured for the base and the quote token of a pair
BaseDecimals(symbol) == IF symbol = "WBTC/USDT" THEN 8 ELSE 18
QuoteDecimals(symbol) == IF symbol = "ETH/DAI" THEN 18 ELSE 6

\* quote-token reserve / base-token reserve, each scaled by its token's
\* decimals, for a pool that holds the token named token0 in slot 0
TrueMid(symbol, token0, reserve0, reserve1) ==
    LET baseRaw  == IF token0 = "base" THEN reserve0 ELSE reserve1
        quoteRaw == IF token0 = "base" THEN reserve1 ELSE reserve0
    IN  NumDiv(FormatUnits(quoteRaw, QuoteDecimals(symbol)),
               FormatUnits(baseRaw, BaseDecimals(symbol)))

\* C16: the mid price a fetch computes from the reserves it read is the
\* quote-token reserve divided by the base-token reserve, each scaled by its
\* token's decimals, whichever slot of the pool holds the base token.
C16_MidPrice ==
    \A kd \in DOMAIN fetch :
        fetch[kd].price # <<>> =>
            NumEq(fetch[kd].price[1],
                  TrueMid(cycle[kd[1]].symbol, fetch[kd].token0,
                          Raw(fetch[kd].reserve0, Decimals0(cycle[kd[1]].symbol)),
                          Raw(fetch[kd].reserve1, Decimals1(cycle[kd[1]].symbol))))

\* C17: the cycle a Swap event starts does not depend on the event's
\* payload.  The handler starts, for every payload it could have been given,
\* the same cycles with the same arguments and fully determined by the pool,
\* the clock and lastCallTime (the payload goes to the log only); and what
\* the cycle evaluates and posts is determined by the event's pair and the
\* quotes its fetches returned.
C17_PayloadIndependent ==
    /\ [][Len(delivered') > Len(delivered) =>
             \A p \in Payloads :
                /\ \A k \in CycleIds :
                      cycle'[k] = IF cycle[k].pc = "idle" /\ cycle'[k].pc # "idle"
                                  THEN [IdleCycle EXCEPT
                                           !.pc = "fanout",
                                           !.symbol = ScanArgs(delivered'[Len(delivered')].symbol, p).symbol,
                                           !.triggerEvent =
                                               ScanArgs(delivered'[Len(delivered')].symbol, p).triggerEvent]
                                  ELSE cycle[k]
                /\ \A kd \in DOMAIN fetch :
                      fetch'[kd] = IF cycle[kd[1]].pc = "idle" /\ cycle'[kd[1]].pc # "idle"
                                   THEN [IdleFetch EXCEPT !.pc = fetch'[kd].pc, !.due = fetch'[kd].due]
                                   ELSE fetch[kd]
                /\ \A kd \in DOMAIN fetch :
                      (cycle[kd[1]].pc = "idle" /\ cycle'[kd[1]].pc # "idle") =>
                          \/ fetch'[kd].pc = "reserves" /\ fetch'[kd].due = 0
                          \/ fetch'[kd].pc = "rl1"
                                /\ fetch'[kd].due = lastCallTime' + RATE_LIMIT_DELAY]_vars
    /\ [](\A i \in 1..Len(delivered) :
            LET k == Len(Pairs) + i IN
            Evaluated(k) =>
                /\ cycle[k].validResults = ValidResults(k)
                /\ \A j \in 1..Len(cycle[k].validResults) :
                      cycle[k].validResults[j].symbol = delivered[i].symbol
                /\ cycle[k].validResults # <<>> =>
                      cycle[k].ev = <<Evaluate(cycle[k].validResults)>>
                /\ cycle[k].posts
                      = <<CycleMessage(delivered[i].symbol, cycle[k].validResults, TRUE)>>)

\* the cycle started by an event whose payload is a purchase of token0 (the
\* quote token came in) has evaluated quotes and posted its notification
C17_Witness ==
    /\ Len(delivered) = 1
    /\ delivered[1].details[1].dir = "In"
    /\ delivered[1].details[1].token = QuoteToken(delivered[1].symbol)
    /\ Evaluated(Len(Pairs) + 1)
    /\ Len(cycle[Len(Pairs) + 1].validResults) = Len(DexNames)
    /\ Len(cycle[Len(Pairs) + 1].posts) = 1

\* quote q holds both the minimum ask and the maximum bid of the quotes
HoldsBoth(q, quotes) ==
    \A j \in 1..Len(quotes) :
        ~NumLess(quotes[j].ask, q.ask) /\ ~NumGreater(quotes[j].bid, q.bid)

\* C18: when a quote of a cycle holds both the minimum ask and the maximum
\* bid, one quote that does (the first of them) is selected as both buy and
\* sell, the cycle posts the normal result notification, naming that source
\* on both sides, and the net profit percentage is <= 0 (the update message,
\* not the opportunity).
C18_SameQuoteBothSides ==
    \A k \in CycleIds :
        (Evaluated(k) /\ \E i \in 1..Len(cycle[k].validResults) :
                            HoldsBoth(cycle[k].validResults[i], cycle[k].validResults)) =>
            LET ev == cycle[k].ev[1]
                vr == cycle[k].validResults
                first == CHOOSE i \in 1..Len(vr) :
                            /\ HoldsBoth(vr[i], vr)
                            /\ \A j \in 1..(i - 1) : ~HoldsBoth(vr[j], vr)
            IN  /\ Len(cycle[k].ev) = 1
                /\ ev.lowestAsk = vr[first]
                /\ ev.highestBid = vr[first]
                /\ ev.profitPercentage.n <= 0
                /\ Len(cycle[k].posts) = 1
                /\ cycle[k].posts[1].title
                      = IF cycle[k].triggerEvent THEN "SWAP DETECTED" ELSE "MARKET UPDATE"
                /\ cycle[k].posts[1].buy = vr[first].exchange
                /\ cycle[k].posts[1].sell = vr[first].exchange
                /\ cycle[k].posts[1].profitPercentage = ToFixed2(ev.profitPercentage)

\* both sources quoted the same price: the first quote holds the minimum ask
\* and the maximum bid and is bought from and sold to
C18_Witness ==
    \E k \in CycleIds :
        /\ Evaluated(k)
        /\ Len(cycle[k].validResults) = 2
        /\ HoldsBoth(cycle[k].validResults[1], cycle[k].validResults)
        /\ cycle[k].posts[1].buy = cycle[k].posts[1].sell
        /\ cycle[k].posts[1].profitPercentage.neg

\* C19: no listener is installed before main has finished the startup scans;
\* from the moment setupEventListeners has run there is exactly one Swap
\* listener for every (DEX, pair) combination, and no step of the running
\* process adds, removes or replaces one.
C19_OneSubscription ==
    /\ [](DOMAIN subs = DexSet \X PairSet)
    /\ [](main.pc \in {"starting", "scanning"} => \A ds \in DOMAIN subs : subs[ds] = 0)
    /\ [](main.pc \in {"listening", "stopping"} => \A ds \in DOMAIN subs : subs[ds] = 1)
    /\ [][main.pc \in {"listening", "stopping"} => subs' = subs]_vars

\* the engine listens, an event was handled and its cycle has returned, and
\* every pool still has its one listener
C19_Witness ==
    /\ main.pc = "listening"
    /\ Len(delivered) = 1
    /\ cycle[Len(Pairs) + 1].pc = "done"
    /\ \A ds \in DexSet \X PairSet : subs[ds] = 1

\* C20: a cycle hands its notification to axios.post once and never again:
\* it has posted nothing before its fan-in and exactly one message from then
\* on, whatever the post did; after a failed send (a status other than 200,
\* or a throw) the cycle has returned normally with that single post.
C20_SentAtMostOnce ==
    \A k \in CycleIds :
        /\ Len(cycle[k].posts) <= 1
        /\ cycle[k].pc \in {"idle", "fanout"} => cycle[k].posts = <<>>
        /\ cycle[k].pc = "sending" => (Len(cycle[k].posts) = 1 /\ cycle[k].sent = "none")
        /\ cycle[k].sent # "none" => (cycle[k].pc = "done" /\ Len(cycle[k].posts) = 1)

\* the send of the startup cycle's result notification threw: the cycle has
\* returned with its one post and main went on to listen
C20_Witness ==
    /\ cycle[1].pc = "done"
    /\ cycle[1].sent = "throws"
    /\ Len(cycle[1].posts) = 1
    /\ cycle[1].posts[1].title = "MARKET UPDATE"
    /\ main.pc = "listening"

\* C21: the quotes of a cycle come from fetchDexPrice (bid below ask, both
\* positive); a cycle that posts the profitable-opportunity message buys
\* from a source other than the one it sells to, and a cycle with a single
\* surviving quote does not post that message.
C21_ProfitableAcrossSources ==
    \A k \in CycleIds :
        (Evaluated(k) /\ cycle[k].validResults # <<>>) =>
            LET ev == cycle[k].ev[1]
                profitable == cycle[k].posts[1].title = "PROFITABLE OPPORTUNITY"
            IN  /\ \A j \in 1..Len(cycle[k].validResults) :
                      /\ cycle[k].validResults[j].bid.n > 0
                      /\ NumLess(cycle[k].validResults[j].bid, cycle[k].validResults[j].ask)
                /\ profitable <=> IsProfitable(ev.profitPercentage)
                /\ profitable =>
                      /\ ev.lowestAsk.exchange # ev.highestBid.exchange
                      /\ cycle[k].posts[1].buy # cycle[k].posts[1].sell
                      /\ Len(cycle[k].validResults) >= 2
                /\ Len(cycle[k].validResults) = 1 => ~profitable

\* a cycle with the quotes of both sources posted the opportunity: it buys
\* from one source and sells to the other
C21_Witness ==
    \E k \in CycleIds :
        /\ Evaluated(k)
        /\ Len(cycle[k].validResults) = 2
        /\ cycle[k].posts[1].title = "PROFITABLE OPPORTUNITY"
        /\ cycle[k].posts[1].buy # cycle[k].posts[1].sell

\* C22: no cycle is started by an event before the startup scans of all
\* pairs have returned: while main is in its start message or in the scans
\* there is no listener, no event has been handed to one and the only cycles
\* are the startup scans; a Swap a pool emits then changes no cycle and no
\* fetch; and whenever an event cycle exists, every startup scan is done.
C22_NoEventCycleDuringStartup ==
    /\ [](main.pc \in {"starting", "scanning"} =>
            /\ \A ds \in DOMAIN subs : subs[ds] = 0
            /\ delivered = <<>>
            /\ EventCycles = {})
    /\ [](EventCycles # {} => \A i \in 1..Len(Pairs) : cycle[i].pc = "done")
    /\ [][(swaps' # swaps /\ main.pc \in {"starting", "scanning"})
            => (cycle' = cycle /\ fetch' = fetch /\ delivered' = delivered
                /\ lastCallTime' = lastCallTime)]_vars

\* a pool emitted a Swap while a startup scan was in flight; the scans have
\* since returned, main listens, and no cycle was started for that event
C22_Witness ==
    /\ main.pc = "listening"
    /\ swaps = 1
    /\ delivered = <<>>
    /\ EventCycles = {}
    /\ \A i \in 1..Len(Pairs) : cycle[i].pc = "done" /\ Len(cycle[i].posts) = 1

\* C23: every quote fetchDexPrice returns carries tradingFee 0.003, whatever
\* the factory's feeTo() did: returned the zero address, returned another
\* address, or failed.
C23_FeeAlwaysDefault ==
    \A kd \in DOMAIN fetch :
        fetch[kd].result # <<>> =>
            /\ fetch[kd].feeTo \in FeeOutcomes
            /\ NumEq(fetch[kd].result[1].tradingFee, Num(3, 1000))

\* one scan whose quotes came from a factory with feeTo set and from one
\* whose feeTo() failed
C23_Witness ==
    /\ \E d \in DexSet : fetch[<<1, d>>].result # <<>> /\ fetch[<<1, d>>].feeTo = "set"
    /\ \E d \in DexSet : fetch[<<1, d>>].result # <<>> /\ fetch[<<1, d>>].feeTo = "error"

\* C24: for the same fetched quotes the JavaScript variant produces the
\* notification the TypeScript variant produces, and the sell price both show
\* is the sell quote's bid, the value the profit was computed with.
C24_SameNotification ==
    \A k \in CycleIds :
        Evaluated(k) =>
            LET js == CycleMessageJs(cycle[k].symbol, cycle[k].validResults,
                                     cycle[k].triggerEvent)
                ts == cycle[k].posts[1]
            IN  /\ js = ts
                /\ cycle[k].validResults # <<>> =>
                      /\ ts.sellAt = ToFixed2(cycle[k].ev[1].sellPrice)
                      /\ js.sellAt = ToFixed2(cycle[k].ev[1].sellPrice)

====
